---- MODULE Spec2Model ----
(***************************************************************************)
(* The IAM binding resource of google/resource_iam_binding.go: the four    *)
(* controller operations (Create, Read, Update, Delete) of one binding     *)
(* (a role and its members) against a remote IAM policy that is shared     *)
(* with other controllers and with writers outside of them.                *)
(*                                                                         *)
(* A controller invocation is a sequence of steps; the steps that touch    *)
(* the remote policy (the fetch and the commit of the read-modify-write    *)
(* cycle, the fetch of Read) are the points at which other invocations     *)
(* and outside writers interleave.                                         *)
(*                                                                         *)
(* Spec     : one invocation of one controller, from any policy and any    *)
(*            id, with writers outside of it changing the policy between   *)
(*            its steps.                                                   *)
(* SpecConc : one invocation of each of two controllers, interleaved.      *)
(***************************************************************************)
EXTENDS Integers, Sequences, FiniteSets, TLC

\* ------------------------------------------------------------------ bounds
\* Longest binding list of the policy the remote authority holds at the
\* start (writers and Create may make it longer).
MaxBindings == 2
\* Writes to the remote policy made by writers outside of the controllers.
MaxExt == 1

\* ------------------------------------------------------------ value domains
Procs == {"c1", "c2"}
Roles == {"viewer", "editor"}
\* The members, in the order schema.Set lists them (the order of their hash
\* codes, fixed for a given set of strings).
MemberOrder == <<"x", "y">>
Members == {MemberOrder[i] : i \in DOMAIN MemberOrder}
\* updater.GetResourceId()
ResourceId == "res"
\* The id Create sets: updater.GetResourceId() + "/" + p.Role
IdOf(r) == ResourceId \o "/" \o r

Range(s) == {s[i] : i \in DOMAIN s}

\* schema.Set.List() followed by convertStringArr: the list of a set.
SetToList(S) == SelectSeq(MemberOrder, LAMBDA m : m \in S)

\* cloudresourcemanager.Binding values a policy may hold at the start
MemberLists == {<<m>> : m \in Members}
BindingSet == [role : Roles, members : MemberLists]
BindingLists == UNION {[1..n -> BindingSet] : n \in 0..MaxBindings}

\* getResourceIamBinding(d)
getResourceIamBinding(dd) ==
    [role |-> dd.role, members |-> SetToList(dd.members)]

\* --------------------------------------------------------- binding lists
HasRole(bs, r) == \E i \in DOMAIN bs : bs[i].role = r

\* The position of the first entry with role r, 0 when there is none: the
\* scan "for pos, b := range p.Bindings { if b.Role != r {continue}; ...; break }".
FirstIndex(bs, r) ==
    IF HasRole(bs, r)
    THEN CHOOSE i \in DOMAIN bs :
            bs[i].role = r /\ \A j \in 1..(i - 1) : bs[j].role # r
    ELSE 0

RECURSIVE Dedup(_)
\* A list without its repeated elements (first occurrences kept).
Dedup(s) ==
    IF s = <<>> THEN <<>>
    ELSE LET front == Dedup(SubSeq(s, 1, Len(s) - 1))
             last == s[Len(s)]
         IN IF last \in Range(front) THEN front ELSE Append(front, last)

RECURSIVE Concat(_)
Concat(ss) == IF ss = <<>> THEN <<>> ELSE Head(ss) \o Concat(Tail(ss))

\* mergeBindings(bindings): one entry per role, its members the union of the
\* members of all the entries with that role, none repeated.
mergeBindings(bs) ==
    LET roles == Dedup([i \in DOMAIN bs |-> bs[i].role])
        membersOf(r) == Dedup(Concat([i \in DOMAIN bs |->
                                 IF bs[i].role = r THEN bs[i].members ELSE <<>>]))
    IN [k \in DOMAIN roles |-> [role |-> roles[k], members |-> membersOf(roles[k])]]

\* The modify functions handed to iamPolicyReadModifyWrite. Each gives the
\* error it returns and the binding list it leaves in the policy.
\* (mutant) Create that appends the declared binding and does not merge.
CreateModifyAppendOnly(bs, b) ==
    [err |-> "none", bindings |-> Append(bs, b)]

\* (mutant) Create that replaces the entries of the role instead of merging.
CreateModifyReplace(bs, b) ==
    [err |-> "none",
     bindings |-> Append(SelectSeq(bs, LAMBDA e : e.role # b.role), b)]

\* (mutant) Create that merges the fetched list and forgets the declared binding.
CreateModifyNoAppend(bs, b) ==
    [err |-> "none", bindings |-> mergeBindings(bs)]

CreateModify(bs, b) ==
    [err |-> "none", bindings |-> mergeBindings(Append(bs, b))]

\* (mutant) Update that overwrites the whole binding list.
UpdateModifyOverwrite(bs, b) ==
    [err |-> "none", bindings |-> <<b>>]

UpdateModify(bs, b) ==
    LET pos == FirstIndex(bs, b.role)
    IN [err |-> "none",
        bindings |-> IF pos # 0 THEN [bs EXCEPT ![pos] = b] ELSE Append(bs, b)]

\* (mutant) Delete that drops the found entry and every entry after it.
DeleteModifyTruncate(bs, b) ==
    LET toRemove == FirstIndex(bs, b.role)
    IN [err |-> "none",
        bindings |-> IF toRemove = 0 THEN bs ELSE SubSeq(bs, 1, toRemove - 1)]

\* (mutant) Delete that reports a role it does not find as an error.
DeleteModifyNotFound(bs, b) ==
    LET toRemove == FirstIndex(bs, b.role)
    IN [err |-> IF toRemove = 0 THEN "notfound" ELSE "none",
        bindings |-> IF toRemove = 0 THEN bs
                     ELSE SubSeq(bs, 1, toRemove - 1) \o SubSeq(bs, toRemove + 1, Len(bs))]

DeleteModify(bs, b) ==
    LET toRemove == FirstIndex(bs, b.role)
    IN [err |-> "none",
        bindings |-> IF toRemove = 0 THEN bs
                     ELSE SubSeq(bs, 1, toRemove - 1) \o SubSeq(bs, toRemove + 1, Len(bs))]

Modify(o, bs, b) ==
    CASE o = "create" -> CreateModify(bs, b)
      [] o = "update" -> UpdateModify(bs, b)
      [] o = "delete" -> DeleteModify(bs, b)

\* ------------------------------------------------------------------ state
VARIABLES
    remote,     \* the policy the remote authority holds: [etag, bindings]
    writers,    \* writers[e]: who wrote the version with etag e (history)
    extLeft,    \* writes the outside writers may still make
    pc,         \* pc[c]: the step controller c is at
    op,         \* op[c]: the operation of c's invocation
    d,          \* d[c]: the schema.ResourceData: [id, role, members, etag]
    binding,    \* binding[c]: the declared binding, getResourceIamBinding(d)
    fetched,    \* fetched[c]: the policy the read-modify-write cycle fetched
    pol,        \* pol[c]: that policy after the modify function
    err,        \* err[c]: the error the invocation returned ("none": nil)
    trace       \* trace[c]: what the invocation has done so far (history)

vars == <<remote, writers, extLeft, pc, op, d, binding, fetched, pol, err, trace>>

NoPolicy == [etag |-> 0, bindings |-> <<>>]
NoBinding == [role |-> "", members |-> <<>>]
NoTrace == [fetches |-> 0, commits |-> 0, rmwFetch |-> "no", mutate |-> "no",
            commit |-> "no", readFetch |-> "no", found |-> "no", idBefore |-> ""]

\* The state before the framework calls the controllers in `active`: the
\* remote authority holds one of `policies`, and each controller's
\* ResourceData carries its role and the id a former invocation left.
InitWith(active, policies) ==
    /\ remote \in [etag : {1}, bindings : policies]
    /\ writers = <<"init">>
    /\ pc = [c \in Procs |-> IF c \in active THEN "idle" ELSE "off"]
    /\ op = [c \in Procs |-> "none"]
    /\ d \in [Procs -> [id : {""} \cup {IdOf(r) : r \in Roles}, role : Roles,
                         members : {{}}, etag : {0}]]
    /\ \A c \in Procs : d[c].id \in {"", IdOf(d[c].role)}
    /\ \A c \in Procs \ active : d[c] = [id |-> "", role |-> "viewer", members |-> {}, etag |-> 0]
    /\ binding = [c \in Procs |-> NoBinding]
    /\ fetched = [c \in Procs |-> NoPolicy]
    /\ pol = [c \in Procs |-> NoPolicy]
    /\ err = [c \in Procs |-> "none"]
    /\ trace = [c \in Procs |-> NoTrace]

Init == InitWith({"c1"}, BindingLists) /\ extLeft = MaxExt

InitConc == InitWith(Procs, {bs \in BindingLists : Len(bs) <= 1}) /\ extLeft = 0

Ops == {"create", "read", "update", "delete"}
\* The declared members of a call: Create and Update read them from the
\* configuration; Read and Delete do not use them.
DeclaredMembers(c, o) ==
    IF o \in {"create", "update"} THEN (SUBSET Members) \ {{}} ELSE {d[c].members}

\* ---------------------------------------------------------------- actions
\* The framework calls operation o of controller c with the declared members
\* ms; newUpdaterFunc succeeds.
Start(c, o, ms) ==
    /\ pc[c] = "idle"
    /\ op' = [op EXCEPT ![c] = o]
    /\ d' = [d EXCEPT ![c].members = ms]
    /\ binding' = [binding EXCEPT ![c] = getResourceIamBinding(d'[c])]
    /\ trace' = [trace EXCEPT ![c].idBefore = d[c].id]
    /\ pc' = [pc EXCEPT ![c] = IF o = "read" THEN "read" ELSE "rmw_fetch"]
    /\ UNCHANGED <<remote, writers, extLeft, fetched, pol, err>>

\* (mutant) A failed newUpdaterFunc whose error is noticed only after the
\* policy was fetched.
StartUpdaterFailLate(c, o) ==
    /\ pc[c] = "idle"
    /\ op' = [op EXCEPT ![c] = o]
    /\ err' = [err EXCEPT ![c] = "updater"]
    /\ trace' = [trace EXCEPT ![c].idBefore = d[c].id, ![c].fetches = @ + 1]
    /\ pc' = [pc EXCEPT ![c] = "done"]
    /\ UNCHANGED <<remote, writers, extLeft, d, binding, fetched, pol>>

\* newUpdaterFunc fails: the operation returns its error.
StartUpdaterFail(c, o) ==
    /\ pc[c] = "idle"
    /\ op' = [op EXCEPT ![c] = o]
    /\ err' = [err EXCEPT ![c] = "updater"]
    /\ trace' = [trace EXCEPT ![c].idBefore = d[c].id]
    /\ pc' = [pc EXCEPT ![c] = "done"]
    /\ UNCHANGED <<remote, writers, extLeft, d, binding, fetched, pol>>

\* (mutant) The error of the read-modify-write cycle is dropped and the
\* operation goes on to Read.
SwallowsError(c, e) ==
    /\ err' = err
    /\ pc' = [pc EXCEPT ![c] = "read"]

\* (mutant) The error of the cycle is kept, and the Read is run all the same.
ReturnsErrorAfterRead(c, e) ==
    /\ err' = [err EXCEPT ![c] = e]
    /\ pc' = [pc EXCEPT ![c] = "read"]

\* "if err != nil { return err }" after iamPolicyReadModifyWrite: the
\* operation ends with the error of the cycle.
ReturnsError(c, e) ==
    /\ err' = [err EXCEPT ![c] = e]
    /\ pc' = [pc EXCEPT ![c] = "done"]

\* (mutant) A modify function that hands back a policy without the etag.
ModifyPolicyClearsEtag(o, p, b) ==
    [etag |-> 0, bindings |-> Modify(o, p.bindings, b).bindings]

\* The modify functions of Create, Update and Delete applied to the policy
\* p: they assign p.Bindings and nothing else, the etag stays as fetched.
ModifyPolicy(o, p, b) ==
    [p EXCEPT !.bindings = Modify(o, p.bindings, b).bindings]

\* iamPolicyReadModifyWrite, step 1 and 2: updater.GetResourceIamPolicy()
\* succeeds and the modify function runs on the fetched policy; a modify
\* function that fails ends the cycle with its error.
RmwFetch(c) ==
    /\ pc[c] = "rmw_fetch"
    /\ LET m == Modify(op[c], remote.bindings, binding[c])
       IN /\ fetched' = [fetched EXCEPT ![c] = remote]
          /\ pol' = [pol EXCEPT ![c] = ModifyPolicy(op[c], remote, binding[c])]
          /\ trace' = [trace EXCEPT ![c].fetches = @ + 1, ![c].rmwFetch = "ok",
                                    ![c].mutate = IF m.err = "none" THEN "ok" ELSE "failed"]
          /\ IF m.err = "none"
             THEN /\ pc' = [pc EXCEPT ![c] = "rmw_commit"]
                  /\ err' = err
             ELSE ReturnsError(c, m.err)
    /\ UNCHANGED <<remote, writers, extLeft, op, d, binding>>

\* (mutant) A failed fetch that goes on to the commit.
RmwFetchFailCommits(c) ==
    /\ pc[c] = "rmw_fetch"
    /\ trace' = [trace EXCEPT ![c].fetches = @ + 1, ![c].rmwFetch = "failed"]
    /\ pc' = [pc EXCEPT ![c] = "rmw_commit"]
    /\ UNCHANGED <<remote, writers, extLeft, op, d, binding, fetched, pol, err>>

\* updater.GetResourceIamPolicy() fails in iamPolicyReadModifyWrite.
RmwFetchFail(c) ==
    /\ pc[c] = "rmw_fetch"
    /\ trace' = [trace EXCEPT ![c].fetches = @ + 1, ![c].rmwFetch = "failed"]
    /\ ReturnsError(c, "fetch")
    /\ UNCHANGED <<remote, writers, extLeft, op, d, binding, fetched, pol>>

\* (mutant) A remote authority that accepts any etag.
AcceptsAny(p) == TRUE

\* The remote authority's compare-and-swap: a policy is accepted when it
\* carries the etag of the policy the authority holds.
Accepts(p) == p.etag = remote.etag

\* (mutant) Create that does not set the id.
AfterRmwNoSetId(o, dd, b) == dd

\* What follows a successful read-modify-write cycle, before Read is re-run:
\* Create sets the id (d.SetId), Update and Delete set nothing.
AfterRmw(o, dd, b) ==
    IF o = "create" THEN [dd EXCEPT !.id = IdOf(b.role)] ELSE dd

\* iamPolicyReadModifyWrite, step 3: updater.SetResourceIamPolicy(p) is
\* accepted; the operation goes on to Read.
RmwCommit(c) ==
    /\ pc[c] = "rmw_commit"
    /\ Accepts(pol[c])
    /\ remote' = [etag |-> remote.etag + 1, bindings |-> pol[c].bindings]
    /\ writers' = Append(writers, c)
    /\ trace' = [trace EXCEPT ![c].commits = @ + 1, ![c].commit = "ok"]
    /\ d' = [d EXCEPT ![c] = AfterRmw(op[c], d[c], binding[c])]
    /\ pc' = [pc EXCEPT ![c] = "read"]
    /\ UNCHANGED <<extLeft, op, binding, fetched, pol, err>>

\* The commit is rejected: the etag is stale.
RmwCommitStale(c) ==
    /\ pc[c] = "rmw_commit"
    /\ ~Accepts(pol[c])
    /\ trace' = [trace EXCEPT ![c].commits = @ + 1, ![c].commit = "stale"]
    /\ ReturnsError(c, "commit")
    /\ UNCHANGED <<remote, writers, extLeft, op, d, binding, fetched, pol>>

\* The commit fails for another reason (the transport).
RmwCommitFail(c) ==
    /\ pc[c] = "rmw_commit"
    /\ trace' = [trace EXCEPT ![c].commits = @ + 1, ![c].commit = "failed"]
    /\ ReturnsError(c, "commit")
    /\ UNCHANGED <<remote, writers, extLeft, op, d, binding, fetched, pol>>

\* (mutant) A loop without the break: the last binding with the role.
FindBindingLast(bs, eBinding) ==
    IF HasRole(bs, eBinding.role)
    THEN CHOOSE i \in DOMAIN bs :
             /\ bs[i].role = eBinding.role
             /\ \A j \in DOMAIN bs : bs[j].role = eBinding.role => j <= i
    ELSE 0

\* The loop of resourceIamBindingRead: the first binding of the policy with
\* the role of eBinding (its position; 0: binding == nil).
FindBinding(bs, eBinding) == FirstIndex(bs, eBinding.role)

\* (mutant) Read that keeps the id when the binding is not found.
ReadProjectKeepId(dd, p, pos) ==
    IF pos = 0
    THEN dd
    ELSE [dd EXCEPT !.etag = p.etag,
                    !.members = Range(p.bindings[pos].members),
                    !.role = p.bindings[pos].role]

\* The end of resourceIamBindingRead: the id is cleared when the binding was
\* not found, else etag, members and role are set from the policy.
ReadProject(dd, p, pos) ==
    IF pos = 0
    THEN [dd EXCEPT !.id = ""]
    ELSE [dd EXCEPT !.etag = p.etag,
                    !.members = Range(p.bindings[pos].members),
                    !.role = p.bindings[pos].role]

\* resourceIamBindingRead: the policy is fetched and the first binding with
\* the declared role is projected into d, or the id is cleared.
Read(c) ==
    /\ pc[c] = "read"
    /\ LET eBinding == getResourceIamBinding(d[c])
           pos == FindBinding(remote.bindings, eBinding)
       IN /\ d' = [d EXCEPT ![c] = ReadProject(d[c], remote, pos)]
          /\ trace' = [trace EXCEPT ![c].fetches = @ + 1, ![c].readFetch = "ok",
                                    ![c].found = IF pos = 0 THEN "absent" ELSE "present"]
    /\ pc' = [pc EXCEPT ![c] = "done"]
    /\ UNCHANGED <<remote, writers, extLeft, op, binding, fetched, pol, err>>

\* (mutant) A Read whose failed fetch clears the id.
ReadFetchFailClearsId(c) ==
    /\ pc[c] = "read"
    /\ trace' = [trace EXCEPT ![c].fetches = @ + 1, ![c].readFetch = "failed"]
    /\ err' = [err EXCEPT ![c] = "fetch"]
    /\ pc' = [pc EXCEPT ![c] = "done"]
    /\ d' = [d EXCEPT ![c].id = ""]
    /\ UNCHANGED <<remote, writers, extLeft, op, binding, fetched, pol>>

\* updater.GetResourceIamPolicy() fails in Read.
ReadFetchFail(c) ==
    /\ pc[c] = "read"
    /\ trace' = [trace EXCEPT ![c].fetches = @ + 1, ![c].readFetch = "failed"]
    /\ err' = [err EXCEPT ![c] = "fetch"]
    /\ pc' = [pc EXCEPT ![c] = "done"]
    /\ UNCHANGED <<remote, writers, extLeft, op, d, binding, fetched, pol>>

\* newUpdaterFunc fails in the Read that Create, Update and Delete re-run.
ReadUpdaterFail(c) ==
    /\ pc[c] = "read"
    /\ op[c] # "read"
    /\ err' = [err EXCEPT ![c] = "updater"]
    /\ pc' = [pc EXCEPT ![c] = "done"]
    /\ UNCHANGED <<remote, writers, extLeft, op, d, binding, fetched, pol, trace>>

\* A controller has fetched the policy and has a remote step to come: its
\* commit, or the fetch of the Read it re-runs.
MidCycle(c) == pc[c] = "rmw_commit" \/ (pc[c] = "read" /\ op[c] # "read")

\* A writer outside of the controllers changes the policy between two remote
\* steps of a controller (a change before the first fetch is a choice of the
\* initial policy; one after the last step is seen by nobody).
ExternalWrite(bs) ==
    /\ extLeft > 0
    /\ \E c \in Procs : MidCycle(c)
    /\ extLeft' = extLeft - 1
    /\ remote' = [etag |-> remote.etag + 1, bindings |-> bs]
    /\ writers' = Append(writers, "ext")
    /\ UNCHANGED <<pc, op, d, binding, fetched, pol, err, trace>>

\* The outside writer adds a binding.
ExternalAdd(b) == ExternalWrite(Append(remote.bindings, b))

\* The outside writer removes the binding at position i.
ExternalRemove(i) ==
    ExternalWrite(SubSeq(remote.bindings, 1, i - 1)
                     \o SubSeq(remote.bindings, i + 1, Len(remote.bindings)))

Step(c) ==
    \/ \E o \in Ops : \E ms \in DeclaredMembers(c, o) : Start(c, o, ms)
    \/ \E o \in Ops : StartUpdaterFail(c, o)
    \/ RmwFetch(c)
    \/ RmwFetchFail(c)
    \/ RmwCommit(c)
    \/ RmwCommitStale(c)
    \/ RmwCommitFail(c)
    \/ Read(c)
    \/ ReadFetchFail(c)
    \/ ReadUpdaterFail(c)

Next ==
    \/ Step("c1")
    \/ \E b \in BindingSet : ExternalAdd(b)
    \/ \E i \in DOMAIN remote.bindings : ExternalRemove(i)

Spec == Init /\ [][Next]_vars

NextConc == \E c \in Procs : Step(c)

SpecConc == InitConc /\ [][NextConc]_vars

\* ------------------------------------------------------------ properties
\* The members bound to role r by a binding list: those of all its entries.
RoleMembers(bs, r) == UNION {Range(bs[i].members) : i \in {j \in DOMAIN bs : bs[j].role = r}}

\* At most one entry per role.
UniqueRoles(bs) == \A i, j \in DOMAIN bs : bs[i].role = bs[j].role => i = j

Rmw(c) == op[c] \in {"create", "update", "delete"}

\* The step of c is an accepted commit.
CommitStep(c) == pc[c] = "rmw_commit" /\ pc'[c] = "read"

\* The declared members of c's binding.
Declared(c) == Range(binding[c].members)

\* C1. Create never shrinks membership: the policy an accepted commit of
\* Create leaves at the remote authority binds to the declared role R every
\* member that any entry for R of the fetched policy had and every declared
\* member.
C1_CreateNeverShrinks ==
    [][\A c \in Procs :
          (CommitStep(c) /\ op[c] = "create") =>
              (RoleMembers(fetched[c].bindings, binding[c].role) \cup d[c].members)
                  \subseteq RoleMembers(remote'.bindings, binding[c].role)]_vars

\* C1 witness: Create has committed on a policy in which the role had a
\* member that is not declared, and that member is still bound.
C1_Witness ==
    \E c \in Procs :
        /\ op[c] = "create" /\ pc[c] = "read" /\ trace[c].commit = "ok"
        /\ remote.bindings = pol[c].bindings
        /\ \E m \in RoleMembers(fetched[c].bindings, binding[c].role) :
              m \notin Declared(c) /\ m \in RoleMembers(remote.bindings, binding[c].role)

\* C2. Update replaces exactly: the policy a successful Update commits binds
\* to the declared role exactly the declared members, whatever the fetched
\* policy held for the role (nothing, other members, more than one entry).
C2_UpdateReplacesExactly ==
    \A c \in Procs :
        (op[c] = "update" /\ trace[c].commit = "ok") =>
            RoleMembers(pol[c].bindings, binding[c].role) = Declared(c)

\* C3. Uniqueness: the policy that a create, update or delete cycle commits
\* holds at most one entry per role, for every starting policy.
C3_UniquenessInvariant ==
    \A c \in Procs :
        (Rmw(c) /\ trace[c].commit = "ok") => UniqueRoles(pol[c].bindings)

\* C4. No clobbering across roles: in every interleaving of the fetches and
\* commits of two controllers, an accepted commit of an operation on role R1
\* leaves the members bound to every other role R2 as they were, so what
\* another committed operation wrote for R2 is neither removed nor changed.
C4_NoClobbering ==
    [][\A c \in Procs :
          CommitStep(c) =>
              \A r \in Roles \ {binding[c].role} :
                  RoleMembers(remote'.bindings, r) = RoleMembers(remote.bindings, r)]_vars

\* C4 witness: two operations on different roles have both committed, the
\* second one on the policy the first one wrote and while the first one was
\* still running, and the binding each wrote is there.
C4_Witness ==
    \E a, b \in Procs :
        /\ binding[a].role # binding[b].role
        /\ op[a] \in {"create", "update"} /\ op[b] \in {"create", "update"}
        /\ trace[a].commit = "ok" /\ trace[b].commit = "ok"
        /\ fetched[b].etag = fetched[a].etag + 1
        /\ pc[a] = "read"
        /\ RoleMembers(remote.bindings, binding[a].role) = Declared(a)
        /\ RoleMembers(remote.bindings, binding[b].role) = Declared(b)

\* The remote authority has decided the commit of c.
Decided(c) == trace[c].commit \in {"ok", "stale"}

\* Who wrote the version that follows the one with etag e.
Superseder(e) == IF Len(writers) > e THEN writers[e + 1] ELSE "nobody"

\* C5. Stale-etag rejection: of two cycles that fetched the same version and
\* whose commits both reached the remote authority, exactly one is accepted
\* (none only when a third writer superseded the version first); a rejected
\* commit leaves the remote policy as it is, and the operation that issued
\* it ends there with the commit error, having committed once.
C5_StaleEtagRejection ==
    /\ [](\A a, b \in Procs :
            (a # b /\ Decided(a) /\ Decided(b) /\ fetched[a].etag = fetched[b].etag) =>
                /\ ~(trace[a].commit = "ok" /\ trace[b].commit = "ok")
                /\ (trace[a].commit = "stale" /\ trace[b].commit = "stale") =>
                       Superseder(fetched[a].etag) \notin {a, b, "nobody"})
    /\ [](\A c \in Procs :
            trace[c].commit = "stale" =>
                /\ pc[c] = "done" /\ err[c] = "commit"
                /\ trace[c].commits = 1 /\ trace[c].readFetch = "no")
    /\ [][\A c \in Procs :
            (pc[c] = "rmw_commit" /\ pc'[c] # "rmw_commit" /\ ~Accepts(pol[c])) =>
                /\ remote' = remote
                /\ trace'[c].commit # "ok"]_vars

\* C5 witness: two cycles fetched the same version, one commit was accepted
\* and the other rejected, and the remote policy is the winner's.
C5_Witness ==
    \E a, b \in Procs :
        /\ fetched[a].etag = fetched[b].etag
        /\ trace[a].commit = "ok" /\ trace[b].commit = "stale"
        /\ err[b] = "commit" /\ pc[b] = "done"
        /\ remote.bindings = pol[a].bindings
        /\ remote.bindings # pol[b].bindings

\* C6. A commit is attempted if and only if the fetch succeeded and the
\* modify function returned no error, and after both: when the cycle is
\* over, a commit was attempted exactly when both succeeded, and no commit
\* is ever attempted without them.
C6_CommitIffFetchAndModify ==
    \A c \in Procs :
        /\ trace[c].commits > 0 => (trace[c].rmwFetch = "ok" /\ trace[c].mutate = "ok")
        /\ (Rmw(c) /\ pc[c] \in {"read", "done"}) =>
              (trace[c].commits > 0 <=> (trace[c].rmwFetch = "ok" /\ trace[c].mutate = "ok"))
        /\ pc[c] = "rmw_commit" => (trace[c].rmwFetch = "ok" /\ trace[c].mutate = "ok")

\* C6 witness: a cycle whose fetch failed has ended without a commit.
C6_Witness ==
    \E c \in Procs :
        Rmw(c) /\ pc[c] = "done" /\ trace[c].rmwFetch = "failed" /\ trace[c].commits = 0

\* Delete of c found no binding of its role in the policy it fetched.
DeleteAbsent(c) ==
    /\ op[c] = "delete" /\ trace[c].rmwFetch = "ok"
    /\ ~HasRole(fetched[c].bindings, binding[c].role)

\* C7. Idempotence of delete: a Delete that fetches a policy without the
\* role gets no error from its modify function and leaves the binding list
\* as fetched; its accepted commit leaves the remote binding list unchanged,
\* and it returns no error when the commit is accepted and the Read it
\* re-runs succeeds. A second such Delete after it ends in the same policy,
\* again with no error.
C7_DeleteIdempotent ==
    /\ [](\A c \in Procs :
            DeleteAbsent(c) =>
                /\ trace[c].mutate = "ok"
                /\ pol[c].bindings = fetched[c].bindings
                /\ (pc[c] = "done" /\ trace[c].commit = "ok" /\ trace[c].readFetch = "ok")
                       => err[c] = "none")
    /\ [](\A a, b \in Procs :
            (/\ DeleteAbsent(a) /\ DeleteAbsent(b)
             /\ binding[a].role = binding[b].role
             /\ trace[a].commit = "ok" /\ trace[b].commit = "ok"
             /\ fetched[b].etag = fetched[a].etag + 1) =>
                pol[b].bindings = pol[a].bindings)
    /\ [][\A c \in Procs :
            (CommitStep(c) /\ DeleteAbsent(c)) => remote'.bindings = remote.bindings]_vars

\* C7 witness: two Deletes of the same absent role, one after the other, have
\* both returned no error and the policy is the one the first one found.
C7_Witness ==
    \E a, b \in Procs :
        /\ a # b /\ DeleteAbsent(a) /\ DeleteAbsent(b)
        /\ binding[a].role = binding[b].role
        /\ fetched[b].etag = fetched[a].etag + 1
        /\ pc[a] = "done" /\ pc[b] = "done"
        /\ err[a] = "none" /\ err[b] = "none"
        /\ remote.bindings = fetched[a].bindings
        /\ remote.bindings # <<>>

\* The step of c is a Read whose fetch succeeds.
ReadStep(c) == pc[c] = "read" /\ pc'[c] = "done" /\ trace'[c].readFetch = "ok"

\* C8. Absence signals removal: a Read whose fetch succeeds on a policy with
\* no binding of the declared role clears the id and adds no error.
C8_AbsenceSignalsRemoval ==
    [][\A c \in Procs :
          (ReadStep(c) /\ ~HasRole(remote.bindings, d[c].role)) =>
              (d'[c].id = "" /\ err'[c] = "none")]_vars

\* C8 witness: a Read has found the role absent and cleared an id that was set.
C8_Witness ==
    \E c \in Procs :
        /\ op[c] = "read" /\ pc[c] = "done" /\ trace[c].found = "absent"
        /\ ~HasRole(remote.bindings, d[c].role)
        /\ trace[c].idBefore # "" /\ d[c].id = "" /\ err[c] = "none"

\* Create of c has returned no error.
CreateDone(c) == op[c] = "create" /\ pc[c] = "done" /\ err[c] = "none"

\* The Read that c re-ran fetched the version that c's commit wrote.
ReadOwnCommit(c) == trace[c].commit = "ok" /\ d[c].etag = fetched[c].etag + 1

\* C9 as stated. Round trip: after a successful Create the observed members
\* are the declared ones and the id is <resource id>/<role>.
C9_RoundTrip ==
    \A c \in Procs :
        CreateDone(c) => (d[c].members = Declared(c) /\ d[c].id = IdOf(binding[c].role))

\* C9 amended. After a successful Create whose Read fetched the policy that
\* Create committed, the id is <resource id>/<role> and the observed members
\* are the declared ones together with the members the role had in the
\* policy Create fetched: the declared ones exactly when the role was absent
\* or held declared members only.
C9_RoundTripWithExisting ==
    \A c \in Procs :
        (CreateDone(c) /\ ReadOwnCommit(c)) =>
            /\ d[c].id = IdOf(binding[c].role)
            /\ d[c].role = binding[c].role
            /\ d[c].members = Declared(c) \cup RoleMembers(fetched[c].bindings, binding[c].role)

\* C9 witness: a Create of a role that was absent has read back its own commit.
C9_Witness ==
    \E c \in Procs :
        /\ CreateDone(c) /\ ReadOwnCommit(c)
        /\ ~HasRole(fetched[c].bindings, binding[c].role)
        /\ d[c].members = {"x", "y"}
        /\ d[c].id = IdOf(binding[c].role)

\* Create or Update of c has returned no error and its Read found the binding.
DoneFound(c, o) ==
    op[c] = o /\ pc[c] = "done" /\ err[c] = "none" /\ trace[c].found = "present"

\* C10 as stated. After a successful Create or Update whose Read found the
\* binding, the id is <resource id>/<role>, whatever it was before.
C10_IdentitySetOnCreateAndUpdate ==
    \A c \in Procs :
        (DoneFound(c, "create") \/ DoneFound(c, "update")) => d[c].id = IdOf(binding[c].role)

\* C10 amended. After a successful Create whose Read found the binding, the
\* id is <resource id>/<role>, whatever it was before. Update does not set
\* the id: after a successful Update whose Read found the binding, the id is
\* what it was before. The id is cleared only by a Read that finds the
\* binding absent.
C10_IdentitySetOnCreate ==
    /\ [](\A c \in Procs :
            /\ DoneFound(c, "create") => d[c].id = IdOf(binding[c].role)
            /\ DoneFound(c, "update") => d[c].id = trace[c].idBefore)
    /\ [][\A c \in Procs :
            (d[c].id # "" /\ d'[c].id = "") =>
                (ReadStep(c) /\ ~HasRole(remote.bindings, d[c].role))]_vars

\* C10 witness: a Create that started without an id has returned with the
\* id set and the binding found.
C10_Witness ==
    \E c \in Procs :
        /\ DoneFound(c, "create") /\ trace[c].idBefore = ""
        /\ d[c].id = IdOf(binding[c].role)

\* C11 as stated. Every operation performs at most one fetch and at most
\* one commit per invocation.
C11_OneFetchOneCommit ==
    \A c \in Procs : trace[c].fetches <= 1 /\ trace[c].commits <= 1

\* C11 amended. Read performs at most one fetch and no commit. Create,
\* Update and Delete perform at most one commit and at most two fetches, in
\* sequence: the fetch of the read-modify-write cycle, its commit, and, only
\* after an accepted commit, the fetch of the Read they re-run.
C11_FetchCommitFetch ==
    \A c \in Procs :
        /\ trace[c].commits <= 1
        /\ op[c] = "read" => (trace[c].fetches <= 1 /\ trace[c].commits = 0)
        /\ Rmw(c) =>
              /\ trace[c].fetches <= 2
              /\ trace[c].fetches = 2 => (trace[c].commit = "ok" /\ trace[c].readFetch # "no")
              /\ trace[c].readFetch # "no" => trace[c].commit = "ok"
              /\ trace[c].commits > 0 => trace[c].rmwFetch = "ok"

\* C11 witness: a Create has fetched, committed and fetched again.
C11_Witness ==
    \E c \in Procs :
        /\ op[c] = "create" /\ pc[c] = "done" /\ err[c] = "none"
        /\ trace[c].fetches = 2 /\ trace[c].commits = 1

\* C12 as stated. An operation that returns the error of the updater
\* construction has issued no fetch and no commit and has left the id and
\* the observed state as they were.
C12_UpdaterFailBeforeRemote ==
    \A c \in Procs :
        err[c] = "updater" =>
            /\ trace[c].fetches = 0 /\ trace[c].commits = 0
            /\ d[c].id = trace[c].idBefore /\ d[c].etag = 0

\* C12 amended. When the construction of the updater at the start of
\* Create, Read, Update or Delete fails, the operation returns that error
\* with no fetch and no commit issued and with the id and the observed state
\* unchanged. When the construction fails in the Read that Create, Update
\* or Delete re-run, the operation returns that error after the fetch and
\* the accepted commit of its cycle (and after Create set the id); that Read
\* issues no fetch and changes neither the id nor the observed state.
C12_UpdaterFailFirstOrInRead ==
    [][\A c \in Procs :
          (err[c] = "none" /\ err'[c] = "updater") =>
              /\ pc'[c] = "done"
              /\ remote' = remote
              /\ d'[c] = d[c]
              /\ trace'[c].fetches = trace[c].fetches
              /\ trace'[c].commits = trace[c].commits
              /\ pc[c] = "idle" => (trace'[c].fetches = 0 /\ trace'[c].commits = 0)
              /\ pc[c] # "idle" =>
                    (pc[c] = "read" /\ Rmw(c) /\ trace[c].commit = "ok" /\ trace[c].fetches = 1)]_vars

\* C12 witness: an Update whose updater could not be constructed has
\* returned the error with nothing fetched or committed and the id kept.
C12_Witness ==
    \E c \in Procs :
        /\ op[c] = "update" /\ pc[c] = "done" /\ err[c] = "updater"
        /\ trace[c].fetches = 0 /\ trace[c].commits = 0
        /\ d[c].id # "" /\ d[c].id = trace[c].idBefore

\* No element of the list s occurs in it twice.
NoRepeat(s) == \A i, j \in DOMAIN s : s[i] = s[j] => i = j

\* The roles of a binding list.
RolesOf(bs) == {bs[i].role : i \in DOMAIN bs}

\* C13. Create's merge: the list Create leaves in the policy, computed from
\* the fetched list with the declared binding appended, holds each role of
\* that input exactly once, and binds to it exactly the union of the members
\* of all input entries with that role, no member repeated.
C13_CreateMergeUnion ==
    \A c \in Procs :
        (op[c] = "create" /\ trace[c].rmwFetch = "ok") =>
            LET input == Append(fetched[c].bindings, binding[c])
                out == pol[c].bindings
            IN /\ UniqueRoles(out)
               /\ RolesOf(out) = RolesOf(input)
               /\ \A i \in DOMAIN out :
                     /\ Range(out[i].members) = RoleMembers(input, out[i].role)
                     /\ NoRepeat(out[i].members)

\* C13 witness: the fetched policy held the role twice, with members that
\* overlap the declared ones, and the merge left one entry with the union.
C13_Witness ==
    \E c \in Procs :
        /\ op[c] = "create" /\ trace[c].rmwFetch = "ok"
        /\ ~UniqueRoles(fetched[c].bindings)
        /\ fetched[c].bindings[1].role = binding[c].role
        /\ fetched[c].bindings[2].role = binding[c].role
        /\ fetched[c].bindings[1].members = <<"x">>
        /\ Declared(c) = {"x", "y"}
        /\ pol[c].bindings = <<[role |-> binding[c].role, members |-> <<"x", "y">>]>>


\* C14. After a Delete of role R that returned success with no outside
\* writer having touched the policy, the Read that Delete re-ran found no
\* binding for R and cleared the identity, whatever the starting policy.
C14_DeleteThenReadAbsent ==
    \A c \in Procs :
        (/\ op[c] = "delete" /\ pc[c] = "done" /\ err[c] = "none"
         /\ "ext" \notin Range(writers)) =>
            /\ trace[c].found = "absent"
            /\ d[c].id = ""


\* The entries of a binding list with a role other than r, in order.
Others(bs, r) == SelectSeq(bs, LAMBDA e : e.role # r)

\* C15. The mutation for role R changes only R's entry: for every other
\* role, the members bound to it in the policy handed to commit are the
\* members it had in the fetched policy, and Update and Delete keep the
\* other entries themselves, in their order.
C15_OnlyOwnRoleChanges ==
    \A c \in Procs :
        (Rmw(c) /\ trace[c].mutate = "ok") =>
            /\ \A r \in Roles \ {binding[c].role} :
                  RoleMembers(pol[c].bindings, r) = RoleMembers(fetched[c].bindings, r)
            /\ op[c] \in {"update", "delete"} =>
                  Others(pol[c].bindings, binding[c].role)
                      = Others(fetched[c].bindings, binding[c].role)

\* C15 witness: a Delete whose role is the second entry has committed, the
\* entry of the other role before it kept.
C15_Witness ==
    \E c \in Procs :
        /\ op[c] = "delete" /\ trace[c].commit = "ok"
        /\ Len(fetched[c].bindings) >= 2
        /\ fetched[c].bindings[1].role # binding[c].role
        /\ fetched[c].bindings[2].role = binding[c].role
        /\ pol[c].bindings = Others(fetched[c].bindings, binding[c].role)
        /\ remote.bindings = pol[c].bindings


\* C16. The mutation leaves the etag of the fetched policy unchanged: from
\* the fetch of a cycle on, the policy handed to commit carries the etag
\* that fetch returned, and every commit attempt is made with it.
C16_CommitCarriesFetchedEtag ==
    /\ [](\A c \in Procs :
            (Rmw(c) /\ trace[c].rmwFetch = "ok") => pol[c].etag = fetched[c].etag)
    /\ [][\A c \in Procs :
            (pc[c] = "rmw_fetch" /\ pc'[c] # "rmw_fetch" /\ trace'[c].rmwFetch = "ok") =>
                (fetched'[c] = remote /\ pol'[c].etag = remote.etag)]_vars
    /\ [][\A c \in Procs :
            trace'[c].commits # trace[c].commits =>
                (pol[c].etag = fetched[c].etag /\ pol'[c] = pol[c])]_vars

\* C16 witness: a cycle changed the bindings and its commit was accepted
\* with the etag it had fetched.
C16_Witness ==
    \E c \in Procs :
        /\ Rmw(c) /\ trace[c].commit = "ok"
        /\ pol[c].bindings # fetched[c].bindings
        /\ pol[c].etag = fetched[c].etag
        /\ fetched[c].etag >= 1


\* The read-modify-write cycle of c has failed: at its fetch or at its commit.
RmwFailed(c) ==
    Rmw(c) /\ (trace[c].rmwFetch = "failed" \/ trace[c].commit \in {"stale", "failed"})

\* C17. When the read-modify-write cycle of Create, Update or Delete fails
\* at its fetch or at its commit, the operation ends in that step with that
\* error: the step changes neither the id nor the observed etag, members and
\* role, and the Read is never run afterwards.
C17_RmwFailureReturnsAtOnce ==
    /\ [][\A c \in Procs :
            (~RmwFailed(c) /\ RmwFailed(c)') =>
                /\ pc'[c] = "done"
                /\ err'[c] = (IF trace'[c].rmwFetch = "failed" THEN "fetch" ELSE "commit")
                /\ d'[c] = d[c]]_vars
    /\ [](\A c \in Procs :
            RmwFailed(c) =>
                /\ pc[c] = "done"
                /\ err[c] \in {"fetch", "commit"}
                /\ trace[c].readFetch = "no" /\ trace[c].found = "no"
                /\ d[c].id = trace[c].idBefore
                /\ d[c].etag = 0
                /\ d[c].members = Declared(c)
                /\ d[c].role = binding[c].role)

\* C17 witness: a Create by a controller without an id had its commit
\* rejected and ended with the error, the id still empty.
C17_Witness ==
    \E c \in Procs :
        /\ op[c] = "create" /\ trace[c].commit = "stale"
        /\ pc[c] = "done" /\ err[c] = "commit"
        /\ trace[c].readFetch = "no"
        /\ d[c].id = "" /\ d[c].etag = 0


\* The step of c is the end of a Read whose updater was constructed: its
\* fetch succeeded or failed.
ReadEnds(c) == pc[c] = "read" /\ pc'[c] = "done" /\ trace'[c].readFetch # trace[c].readFetch

\* C18. Read never commits: a Read issues one fetch and no commit and leaves
\* the remote policy as it is, the role present or not; when its fetch
\* succeeds and the role is present it sets the observed etag to the etag of
\* the fetched policy and the observed members and role to those of the
\* first entry with the declared role.
C18_ReadOnlyProjection ==
    /\ [][\A c \in Procs :
            ReadEnds(c) =>
                /\ remote' = remote
                /\ trace'[c].commits = trace[c].commits
                /\ trace'[c].fetches = trace[c].fetches + 1]_vars
    /\ [][\A c \in Procs : \A i \in DOMAIN remote.bindings :
            (/\ ReadStep(c)
             /\ remote.bindings[i].role = d[c].role
             /\ \A j \in 1..(i - 1) : remote.bindings[j].role # d[c].role) =>
                /\ d'[c].etag = remote.etag
                /\ d'[c].members = Range(remote.bindings[i].members)
                /\ d'[c].role = remote.bindings[i].role
                /\ d'[c].id = d[c].id]_vars
    /\ [](\A c \in Procs :
            op[c] = "read" =>
                /\ trace[c].commits = 0
                /\ trace[c].fetches <= 1
                /\ (pc[c] = "done" /\ err[c] # "updater") => trace[c].fetches = 1)

\* C18 witness: a Read of a policy that holds the declared role twice, with
\* different members, has projected the members of the first entry.
C18_Witness ==
    \E c \in Procs :
        /\ op[c] = "read" /\ pc[c] = "done" /\ err[c] = "none"
        /\ trace[c].fetches = 1 /\ trace[c].commits = 0
        /\ Len(remote.bindings) = 2
        /\ remote.bindings[1].role = d[c].role
        /\ remote.bindings[2].role = d[c].role
        /\ remote.bindings[1].members = <<"x">>
        /\ remote.bindings[2].members = <<"y">>
        /\ d[c].members = {"x"}
        /\ d[c].etag = remote.etag


\* The last write to the remote policy was the commit of c.
LastWriter(c) == writers[Len(writers)] = c

\* C19. Create sets the id to <resource id>/<role> in the step of its
\* accepted commit, before the Read it re-runs; when the fetch of that Read
\* fails, Create ends with the error, the id still <resource id>/<role> and
\* the declared members bound to the role in the policy it committed.
C19_IdSetBeforeRead ==
    /\ [][\A c \in Procs :
            (CommitStep(c) /\ op[c] = "create") =>
                /\ d'[c].id = IdOf(binding[c].role)
                /\ trace'[c].readFetch = "no"
                /\ remote'.bindings = pol[c].bindings
                /\ Declared(c) \subseteq RoleMembers(remote'.bindings, binding[c].role)]_vars
    /\ [](\A c \in Procs :
            (op[c] = "create" /\ trace[c].commit = "ok" /\ pc[c] = "read") =>
                (d[c].id = IdOf(binding[c].role) /\ trace[c].readFetch = "no"))
    /\ [](\A c \in Procs :
            (op[c] = "create" /\ trace[c].readFetch = "failed") =>
                /\ pc[c] = "done" /\ err[c] = "fetch"
                /\ trace[c].commit = "ok"
                /\ d[c].id = IdOf(binding[c].role)
                /\ d[c].etag = 0
                /\ LastWriter(c) =>
                      /\ remote.bindings = pol[c].bindings
                      /\ Declared(c) \subseteq RoleMembers(remote.bindings, binding[c].role))

\* C19 witness: a Create by a controller without an id committed a binding
\* the policy did not have, the fetch of its Read failed, and it ended with
\* the error and the id set.
C19_Witness ==
    \E c \in Procs :
        /\ op[c] = "create" /\ pc[c] = "done" /\ err[c] = "fetch"
        /\ trace[c].idBefore = ""
        /\ trace[c].commit = "ok" /\ trace[c].readFetch = "failed"
        /\ d[c].id = IdOf(binding[c].role)
        /\ ~HasRole(fetched[c].bindings, binding[c].role)
        /\ LastWriter(c)
        /\ HasRole(remote.bindings, binding[c].role)
        /\ Declared(c) # {}


\* C20. The no-op path of Delete still commits: a Delete that fetched a
\* policy without the declared role gets no error from its modify function
\* and hands the policy as fetched, with the fetched etag, to the commit; it
\* never ends its cycle without a commit attempt, and a commit attempted
\* after the policy was changed since the fetch ends the Delete with the
\* commit error, the remote policy left alone.
C20_DeleteAbsentStillCommits ==
    /\ [](\A c \in Procs :
            DeleteAbsent(c) =>
                /\ trace[c].mutate = "ok"
                /\ pol[c] = fetched[c]
                /\ pc[c] \in {"rmw_commit", "read", "done"}
                /\ pc[c] \in {"read", "done"} => trace[c].commits = 1
                /\ trace[c].commit = "stale" => (pc[c] = "done" /\ err[c] = "commit"))
    /\ [][\A c \in Procs :
            (/\ DeleteAbsent(c) /\ pc[c] = "rmw_commit" /\ pc'[c] # "rmw_commit"
             /\ remote.etag # fetched[c].etag) =>
                /\ trace'[c].commits = 1
                /\ pc'[c] = "done" /\ err'[c] = "commit"
                /\ remote' = remote]_vars

\* C20 witness: a Delete of a role the policy did not have, the policy
\* changed by an outside writer before the commit, ended with the commit
\* error.
C20_Witness ==
    \E c \in Procs :
        /\ DeleteAbsent(c)
        /\ pol[c] = fetched[c]
        /\ Superseder(fetched[c].etag) = "ext"
        /\ trace[c].commit = "stale"
        /\ pc[c] = "done" /\ err[c] = "commit"

====
